---- MODULE Spec2Model ----
(* A model of the Excel interviewer: the session orchestrator of main.py,     *)
(* the GeminiAgent of ai/agent.py, the question bank of                       *)
(* storage/question_bank.py and the control-marker decoder of core/utils.py.  *)
(*                                                                            *)
(* Texts are sequences of lexemes (one string per lexeme), so that decoding a *)
(* marker, stripping whitespace and comparing ignoring case are computed and  *)
(* not assumed.  A question id is such a sequence too: "7" is <<"7">> and the *)
(* empty string is << >>.  An Optional value is None == << >> or Some(x) ==   *)
(* <<x>>.                                                                     *)
EXTENDS Integers, Sequences, FiniteSets, TLC

VARIABLES
    session_id,            \* st.session_state.session_id (a counter stands for the uuid)
    messages,              \* st.session_state.messages
    ended,                 \* st.session_state.ended
    turn_index,            \* st.session_state.turn_index
    evaluation_generated,  \* st.session_state.evaluation_generated
    performance_summary,   \* st.session_state.performance_summary
    evaluation,            \* requests of generate_performance_summary made in this session
    used,                  \* GeminiAgent._used_question_ids
    questions,             \* QuestionBank._questions
    bank_file,             \* the file at QUESTION_BANK_PATH
    bankCall,              \* the last call made on the bank directly, and what it returned
    pc,                    \* where the running call is: "idle" or "backend"
    call,                  \* arguments of the generate_reply call in progress or last made
    toolCalls,             \* tool calls made so far inside the current generate_reply
    lastTool,              \* the last of them: its arguments and what it returned
    response,              \* the value the last generate_reply call returned (or its raise)
    replyCalls,            \* generate_reply calls entered in this session
    ioFaults,              \* transcript writes that have failed so far
    transcript,            \* the "message" lines of the current session's transcript file
    adders,                \* the add_question calls in progress, one per thread
    selection,             \* the last select_* call made on the bank, and what it returned
    parsed                 \* the last text given to the parser, and what it returned

vars == <<session_id, messages, ended, turn_index, evaluation_generated,
          performance_summary, evaluation, used, questions, bank_file, bankCall, pc, call, toolCalls,
          lastTool, response, replyCalls, ioFaults, transcript, adders, selection,
          parsed>>

uiVars    == <<session_id, messages, ended, turn_index, evaluation_generated,
               performance_summary, evaluation, replyCalls, ioFaults, transcript>>
bankVars  == <<questions, bank_file, bankCall>>
toolVars  == <<toolCalls, lastTool>>
agentVars == <<used, pc, call, toolCalls, lastTool, response>>
(* State of the calls made directly on the bank and on the parser.          *)
directVars == <<adders, selection, parsed>>

----------------------------------------------------------------------------
(* Bounds of the model.                                                     *)

MaxToolCalls == 2      \* tool calls the backend makes inside one generate_reply
MaxSessions  == 1      \* restarts explored
MaxMessages  == 4      \* transcript length at which no further user input is explored
MaxIoFaults  == 1      \* failing transcript writes explored
MaxArgAssistant == 11  \* assistant messages in a transcript handed to generate_reply directly
MaxBankSize  == 4      \* records in the bank at which no further add is explored
MaxCount     == 3      \* largest count asked of select_questions

(* Program constant: agent.py line 224, "End after 10 AI responses".        *)
EndAfterAssistantMessages == 10

----------------------------------------------------------------------------
(* Optional values and lexemes.                                             *)

None == << >>
Some(x) == <<x>>

IsWs(t) == t \in {" ", "\n"}

(* str.lower() on the lexemes the model uses.                               *)
Lower(t) ==
    CASE t \in {"END", "End", "end"}          -> "end"
      [] t \in {"QID", "Qid", "qid"}          -> "qid"
      [] t \in {"TRUE", "True", "true"}       -> "true"
      [] t \in {"FALSE", "False", "false"}    -> "false"
      [] t \in {"NONE", "None", "none"}       -> "none"
      [] t \in {"NULL", "Null", "null"}       -> "null"
      [] t \in {"EASY", "Easy", "easy"}       -> "easy"
      [] t \in {"HARD", "Hard", "hard"}       -> "hard"
      [] t \in {"FORMULAS", "Formulas", "formulas"} -> "formulas"
      [] t \in {"PIVOT", "Pivot", "pivot"}    -> "pivot"
      [] OTHER -> t

RECURSIVE SkipWs(_, _)
(* Index of the first lexeme at or after i that is not whitespace: \s*      *)
SkipWs(s, i) == IF i <= Len(s) /\ IsWs(s[i]) THEN SkipWs(s, i + 1) ELSE i

RECURSIVE RStrip(_)
RStrip(s) == IF s # << >> /\ IsWs(s[Len(s)]) THEN RStrip(SubSeq(s, 1, Len(s) - 1)) ELSE s

(* str.strip()                                                              *)
Strip(s) == LET r == RStrip(s) IN SubSeq(r, SkipWs(r, 1), Len(r))

At(s, i) == IF i >= 1 /\ i <= Len(s) THEN s[i] ELSE "<eos>"

----------------------------------------------------------------------------
(* core/utils.py: parse_response_flags_and_clean_text                       *)

NoMatch == [matched |-> FALSE]

(* The pattern                                                              *)
(*   \s*\[\[\s*END\s*=\s*(true|false)\s+QID\s*=\s*([^\]]+)\s*\]\]\s*$       *)
(* with re.IGNORECASE, tried at position p of s.  The group ([^\]]+) takes  *)
(* every lexeme up to the closing brackets, which must be the last lexeme   *)
(* of s that is not whitespace; when only whitespace stands between "=" and *)
(* "]]" the group backtracks to one whitespace character.                   *)
MatchAt(s, p) ==
    LET i1 == SkipWs(s, p)
        i2 == SkipWs(s, i1 + 1)
        i3 == SkipWs(s, i2 + 1)
        i4 == SkipWs(s, i3 + 1)
        i5 == SkipWs(s, i4 + 1)
        i6 == SkipWs(s, i5 + 1)
        g1 == SkipWs(s, i6 + 1)
        r  == RStrip(s)
        last == Len(r)
    IN  IF /\ At(s, i1) = "[["
           /\ Lower(At(s, i2)) = "end"
           /\ At(s, i3) = "="
           /\ Lower(At(s, i4)) \in {"true", "false"}
           /\ IsWs(At(s, i4 + 1))
           /\ Lower(At(s, i5)) = "qid"
           /\ At(s, i6) = "="
           /\ last > i6 + 1
           /\ At(s, last) = "]]"
           /\ \A k \in (i6 + 1)..(last - 1) : s[k] \notin {"]]", "]"}
        THEN [matched |-> TRUE,
              start   |-> p,
              end_str |-> Lower(s[i4]),
              group2  |-> IF g1 >= last THEN <<s[last - 1]>>
                          ELSE SubSeq(s, g1, last - 1)]
        ELSE NoMatch

(* Mutant: the pattern is not anchored at the end of the text; it may match *)
(* any prefix of s.                                                         *)
SearchUnanchored(s) ==
    LET hits == {h \in (1..Len(s)) \X (1..Len(s)) : MatchAt(SubSeq(s, 1, h[2]), h[1]).matched}
        h0   == CHOOSE h \in hits : \A g \in hits :
                    h[1] < g[1] \/ (h[1] = g[1] /\ h[2] >= g[2])
    IN  IF hits = {} THEN NoMatch ELSE MatchAt(SubSeq(s, 1, h0[2]), h0[1])

(* flags_pattern.search(text): the leftmost position where the pattern      *)
(* matches.                                                                 *)
Search(s) ==
    LET hits == {p \in 1..Len(s) : MatchAt(s, p).matched}
    IN  IF hits = {} THEN NoMatch
        ELSE MatchAt(s, CHOOSE p \in hits : \A q \in hits : p <= q)

(* Mutant: the QID token of the marker is dropped.                          *)
ParseIgnoringQid(text) ==
    LET m == IF text = << >> THEN NoMatch ELSE Search(text) IN
    IF ~m.matched
    THEN [text |-> text, end_flag |-> FALSE, question_id |-> None]
    ELSE [text |-> RStrip(SubSeq(text, 1, m.start - 1)),
          end_flag |-> (m.end_str = "true"), question_id |-> None]

(* Mutant: the marker found is left in the text.                            *)
ParseLeavingMarker(text) ==
    LET m == IF text = << >> THEN NoMatch ELSE Search(text) IN
    IF ~m.matched
    THEN [text |-> text, end_flag |-> FALSE, question_id |-> None]
    ELSE [text |-> text, end_flag |-> (m.end_str = "true"),
          question_id |-> Some(Strip(m.group2))]

parse_response_flags_and_clean_text(text) ==
    IF text = << >>
    THEN [text |-> << >>, end_flag |-> FALSE, question_id |-> None]
    ELSE LET m == Search(text) IN
         IF ~m.matched
         THEN [text |-> text, end_flag |-> FALSE, question_id |-> None]
         ELSE LET qid_raw == Strip(m.group2) IN
              [text        |-> RStrip(SubSeq(text, 1, m.start - 1)),
               end_flag    |-> (m.end_str = "true"),
               question_id |-> IF qid_raw \in {<<"none">>, << >>, <<"null">>}
                               THEN None ELSE Some(qid_raw)]

----------------------------------------------------------------------------
(* core/models.py: Question, and storage/question_bank.py                   *)

(* The fields class Question declares; pydantic requires each of them and   *)
(* ignores keyword arguments that name no field.                            *)
QuestionFields == {"id", "capability", "difficulty", "text"}

(* Mutant: the constructor accepts any keyword arguments.                   *)
QuestionAcceptsAnything(kwargs) == TRUE

(* The constructor of Question validates: no declared field is missing.    *)
QuestionValidates(kwargs) == QuestionFields \subseteq DOMAIN kwargs

(* The keyword arguments question_bank.py passes to Question(...), both in  *)
(* _load_questions and in add_question.                                     *)
QuestionKwargs(id, capabilities, difficulty, text, evaluation_criteria) ==
    [id |-> id, capabilities |-> capabilities, difficulty |-> difficulty,
     text |-> text, evaluation_criteria |-> evaluation_criteria]

(* Two bank entries as the bank code reads them (q.id, q.text,              *)
(* q.difficulty, q.capabilities, q.evaluation_criteria).                    *)
Q1 == QuestionKwargs(<<"1">>, <<"Formulas">>, "Easy", <<"What is VLOOKUP?">>, << >>)
Q2 == QuestionKwargs(<<"2">>, <<"Formulas">>, "Hard", <<"Explain INDEX/MATCH.">>, << >>)
Q3 == QuestionKwargs(<<"3">>, <<"Pivot", "formulas">>, "easy", <<"Build a pivot.">>, << >>)

(* Contents of the bank file: absent, unparsable, or a JSON list of items.  *)
BankFiles ==
    { [state |-> "missing", items |-> << >>],
      [state |-> "corrupt", items |-> << >>],
      [state |-> "list",    items |-> <<Q1, Q2>>],
      [state |-> "list",    items |-> <<Q1, Q2, [Q3 EXCEPT !.id = <<"1">>]>>] }

(* Mutant: a file that cannot be read yields a default question.            *)
LoadQuestionsDefaulting(file) == IF file.state = "list" THEN << >> ELSE <<Q1>>

(* QuestionBank._load_questions: any exception, the validation error of     *)
(* Question(...) included, empties the bank.                                *)
LoadQuestions(file) ==
    IF file.state # "list" THEN << >>
    ELSE IF \A i \in 1..Len(file.items) : QuestionValidates(file.items[i])
         THEN file.items
         ELSE << >>

(* Truthiness of a list, set-free text or id, and of a string.               *)
Truthy(x) == x # << >>
TruthyStr(x) == x # ""

(* The three filters of select_random_question, in the order of the code.   *)
(* A falsy argument (None, empty set, empty string, empty list) skips its   *)
(* filter.                                                                  *)
NotExcluded(qs, exclude_ids) ==
    LET keep(q) == q.id \notin exclude_ids
    IN  IF exclude_ids # {} THEN SelectSeq(qs, keep) ELSE qs

(* Mutant: the difficulty filter compares the spellings as they are.        *)
ByDifficultyCaseSensitive(qs, difficulty) ==
    LET keep(q) == q.difficulty = difficulty
    IN  IF TruthyStr(difficulty) THEN SelectSeq(qs, keep) ELSE qs

ByDifficulty(qs, difficulty) ==
    LET keep(q) == Lower(q.difficulty) = Lower(difficulty)
    IN  IF TruthyStr(difficulty) THEN SelectSeq(qs, keep) ELSE qs

ByCapabilities(qs, capabilities) ==
    LET keep(q) == \E i \in 1..Len(capabilities) : \E j \in 1..Len(q.capabilities) :
                       Lower(capabilities[i]) = Lower(q.capabilities[j])
    IN  IF Truthy(capabilities) THEN SelectSeq(qs, keep) ELSE qs

(* Mutant: the exclusion filter is skipped.                                 *)
SelectIgnoringExclusions(qs, exclude_ids, difficulty, capabilities) ==
    ByCapabilities(ByDifficulty(qs, difficulty), capabilities)

(* QuestionBank.select_random_question: the candidates random.choice draws  *)
(* from; the empty sequence stands for the return of None.                  *)
select_random_question(qs, exclude_ids, difficulty, capabilities) ==
    ByCapabilities(ByDifficulty(NotExcluded(qs, exclude_ids), difficulty), capabilities)

(* int(question.id) for the ids of the model; 0 when int() raises           *)
(* ValueError (the code then skips the id, and max_id starts at 0).         *)
IntOfId(id) ==
    CASE id = <<"1">> -> 1 [] id = <<"2">> -> 2 [] id = <<"3">> -> 3
      [] id = <<"4">> -> 4 [] id = <<"7">> -> 7 [] OTHER -> 0

IdOfInt(n) ==
    CASE n = 1 -> <<"1">> [] n = 2 -> <<"2">> [] n = 3 -> <<"3">>
      [] n = 4 -> <<"4">> [] n = 8 -> <<"8">> [] OTHER -> <<"n">>

RECURSIVE MaxId(_)
MaxId(qs) == IF qs = << >> THEN 0
             ELSE LET m == MaxId(Tail(qs)) n == IntOfId(Head(qs).id)
                  IN  IF n > m THEN n ELSE m

(* QuestionBank._generate_unique_id                                         *)
generate_unique_id(qs) == IF qs = << >> THEN <<"1">> ELSE IdOfInt(MaxId(qs) + 1)

(* Mutant: the record is appended whatever the bank holds.                  *)
AddQuestionUnchecked(qs, text, capabilities, difficulty, question_id, evaluation_criteria, save_ok) ==
    [ok |-> TRUE,
     questions |-> Append(qs, QuestionKwargs(IF question_id = None THEN <<"1">>
                                             ELSE question_id[1],
                                             capabilities, difficulty, Strip(text),
                                             evaluation_criteria)),
     id |-> IF question_id = None THEN <<"1">> ELSE question_id[1],
     wrote |-> "ok"]

(* Mutant: a failed save leaves the appended record in memory.              *)
AddQuestionWithoutRollback(qs, text, capabilities, difficulty, question_id, evaluation_criteria, save_ok) ==
    LET id == IF question_id = None THEN <<"1">> ELSE question_id[1]
    IN  [ok |-> save_ok,
         questions |-> Append(qs, QuestionKwargs(id, capabilities, difficulty,
                                                 Strip(text), evaluation_criteria)),
         id |-> id,
         wrote |-> IF save_ok THEN "ok" ELSE "failed"]

(* Mutant: a failed add pops the last record of the bank.                   *)
AddQuestionPoppingOnFailure(qs, text, capabilities, difficulty, question_id, evaluation_criteria, save_ok) ==
    [ok |-> FALSE,
     questions |-> IF qs = << >> THEN qs ELSE SubSeq(qs, 1, Len(qs) - 1),
     id |-> << >>, wrote |-> "no"]

(* QuestionBank.add_question: [ok, questions] after the call.  question_id  *)
(* is None or Some(id); save_ok is whether _save_questions_to_file succeeds *)
(* when the call reaches it, and wrote says whether it did: "no", "ok" or   *)
(* "failed".                                                                *)
add_question(qs, text, capabilities, difficulty, question_id, evaluation_criteria, save_ok) ==
    LET failed == [ok |-> FALSE, questions |-> qs, id |-> << >>, wrote |-> "no"]
        id == IF question_id = None THEN generate_unique_id(qs) ELSE question_id[1]
        kwargs == QuestionKwargs(id, capabilities, difficulty, Strip(text),
                                 evaluation_criteria)
    IN  IF Strip(text) = << >> THEN failed
        ELSE IF capabilities = << >> THEN failed
        ELSE IF difficulty = "" THEN failed
        ELSE IF \E i \in 1..Len(capabilities) : capabilities[i] = "" THEN failed
        ELSE IF question_id # None /\ Strip(question_id[1]) = << >> THEN failed
        ELSE IF \E i \in 1..Len(qs) : qs[i].id = id THEN failed
        ELSE IF ~QuestionValidates(kwargs) THEN failed
        ELSE IF ~save_ok THEN [failed EXCEPT !.wrote = "failed"]
        ELSE [ok |-> TRUE, questions |-> Append(qs, kwargs), id |-> id, wrote |-> "ok"]

(* QuestionBank.add_question_and_get_id: the id on success, None otherwise. *)
add_question_and_get_id(qs, text, capabilities, difficulty, question_id, evaluation_criteria, save_ok) ==
    LET new_id == IF question_id # None /\ Truthy(question_id[1])
                  THEN question_id[1] ELSE generate_unique_id(qs)
        r == add_question(qs, text, capabilities, difficulty, Some(new_id),
                          evaluation_criteria, save_ok)
    IN  [id |-> IF r.ok THEN Some(new_id) ELSE None, questions |-> r.questions,
         wrote |-> r.wrote]

(* _save_questions_to_file: the bank file after a call of add_question.  A  *)
(* successful write holds the whole bank; a failed one leaves the file as   *)
(* it was (the directory or the file could not be opened) or cut short      *)
(* (open(path, "w") truncated it before json.dump raised).                  *)
FilesAfterAdd(file, r) ==
    IF r.wrote = "ok" THEN {[state |-> "list", items |-> r.questions]}
    ELSE IF r.wrote = "failed" THEN {file, [state |-> "corrupt", items |-> << >>]}
    ELSE {file}

(* _save_questions_to_file called on the list qs: the bank file afterwards. *)
(* The file is opened with mode "w" and json.dump writes into it in place.  *)
save_questions_to_file(file, qs, save_ok) ==
    FilesAfterAdd(file, [wrote |-> IF save_ok THEN "ok" ELSE "failed", questions |-> qs])

(* QuestionBank.get_questions_by_difficulty, on the list qs.                *)
get_questions_by_difficulty(qs, difficulty) ==
    LET keep(q) == Lower(q.difficulty) = Lower(difficulty)
    IN  SelectSeq(qs, keep)

(* Mutant: the capability is compared as it is spelled.                     *)
ByCapabilityCaseSensitive(qs, capability) ==
    LET keep(q) == \E j \in 1..Len(q.capabilities) : capability = q.capabilities[j]
    IN  SelectSeq(qs, keep)

(* QuestionBank.get_questions_by_capability, on the list qs.                *)
get_questions_by_capability(qs, capability) ==
    LET keep(q) == \E j \in 1..Len(q.capabilities) :
                       Lower(capability) = Lower(q.capabilities[j])
    IN  SelectSeq(qs, keep)

(* QuestionBank.get_questions_by_capabilities, on the list qs.              *)
get_questions_by_capabilities(qs, capabilities) ==
    LET keep(q) == \E i \in 1..Len(capabilities) : \E j \in 1..Len(q.capabilities) :
                       Lower(capabilities[i]) = Lower(q.capabilities[j])
    IN  SelectSeq(qs, keep)

(* random.sample(c, k): k elements of c at pairwise different positions, in *)
(* any order.                                                               *)
Sample(c, k) ==
    { [i \in 1..k |-> c[f[i]]] :
        f \in {g \in [1..k -> 1..Len(c)] : \A i, j \in 1..k : i # j => g[i] # g[j]} }

(* Mutant: the sample is drawn with replacement.                            *)
SelectQuestionsWithReplacement(qs, count, exclude_ids, difficulty, capabilities) ==
    LET c == ByCapabilities(ByDifficulty(NotExcluded(qs, exclude_ids), difficulty),
                            capabilities)
    IN  IF Len(c) <= count THEN {c}
        ELSE { [i \in 1..count |-> c[f[i]]] : f \in [1..count -> 1..Len(c)] }

(* QuestionBank.select_questions: the lists the call can return.            *)
select_questions(qs, count, exclude_ids, difficulty, capabilities) ==
    LET c == ByCapabilities(ByDifficulty(NotExcluded(qs, exclude_ids), difficulty),
                            capabilities)
    IN  IF Len(c) <= count THEN {c} ELSE Sample(c, count)

----------------------------------------------------------------------------
(* ai/agent.py: GeminiAgent                                                 *)

(* str(e) of the exceptions a backend call raises.                          *)
Errors == {"timeout", "quota exceeded"}

NoMoreText == <<"No more suitable questions are available.">>
UnableText == <<"Unable to generate a new question at this time.">>
ApologyText == "I apologize, but I'm having trouble connecting to Gemini right now. Error: "
SummaryApologyText == "## Performance Evaluation: we were unable to generate a summary. Error: "
AgentErrorText == <<"Agent error: using fallback reply.">>
SummaryErrorText == <<"## Performance Evaluation Error">>
BootstrapText == <<"To kick off, please share a brief self-assessment of your Excel skills.">>

(* The state dict handed to generate_reply: None, or Some of a dict.        *)
StateDict(sid, force_end) == Some([session_id |-> sid, force_end |-> force_end])

AssistantCount(msgs) == Cardinality({i \in 1..Len(msgs) : msgs[i].role = "assistant"})

(* Mutant: the heuristic fires one assistant message late.                  *)
ShouldEndOneLate(msgs, state) ==
    \/ AssistantCount(msgs) > EndAfterAssistantMessages
    \/ (state # None /\ state[1].force_end)

(* GeminiAgent._should_end_interview(messages, state=None)                  *)
should_end_interview(msgs, state) ==
    \/ AssistantCount(msgs) >= EndAfterAssistantMessages
    \/ (state # None /\ state[1].force_end)

(* Mutant: the tracked id replaces the set instead of joining it.           *)
TrackFlagIdReplacing(u, question_id) ==
    IF question_id # None /\ Truthy(question_id[1]) THEN {question_id[1]} ELSE u

(* generate_reply lines 145-147: an id named by the marker is tracked.      *)
TrackFlagId(u, question_id) ==
    IF question_id # None /\ Truthy(question_id[1]) THEN u \cup {question_id[1]} ELSE u

(* Mutant: the fetched question is not marked.                              *)
MarkUsedNever(u, id) == u

(* get_next_question lines 76-78 and generate_question lines 313-314: a     *)
(* non-empty id is marked used.                                             *)
MarkUsed(u, id) == IF Truthy(id) THEN u \cup {id} ELSE u

(* generate_reply when generate_content returned raw text: lines 137-175.   *)
(* The heuristic is called with the messages alone (line 150), so its state *)
(* parameter keeps its default None.                                        *)
GenerateReplyReturn(raw, msgs, state, u) ==
    LET p  == parse_response_flags_and_clean_text(Strip(raw))
        u2 == TrackFlagId(u, p.question_id)
    IN  [used |-> u2,
         response |->
            [how  |-> "returned",
             text |-> p.text,
             end  |-> (p.end_flag \/ should_end_interview(msgs, None)),
             metadata |-> [agent |-> "gemini",
                           questions_used |-> Cardinality(u2),
                           question_id |-> p.question_id]]]

(* Mutant: the except branch calls the backend once more.                   *)
FallbackRetriesOnce == Len(<<"retry">>)

(* The generate_content calls the except branch of generate_reply makes     *)
(* (lines 177-192): it logs and returns the fallback response.              *)
FallbackBackendCalls == 0

(* generate_reply when anything inside its try block raised e: lines        *)
(* 177-192.                                                                 *)
GenerateReplyFallback(e) ==
    [how  |-> "fallback",
     text |-> <<ApologyText, e>>,
     end  |-> FALSE,
     metadata |-> [agent |-> "gemini", error |-> e, error_type |-> "Exception"]]

(* main.py lines 242-255: what the orchestrator substitutes when            *)
(* generate_reply raised.                                                   *)
AgentErrorResponse ==
    [how |-> "raised", text |-> AgentErrorText, end |-> FALSE, metadata |-> None]

(* Mutant: a failed evaluation yields an empty summary.                     *)
SummaryEmptyOnFailure(outcome) ==
    IF outcome.kind = "text" THEN Strip(outcome.text) ELSE << >>

(* generate_performance_summary: the evaluation text, or on any exception   *)
(* the fallback summary, which ends with str(e).                            *)
generate_performance_summary(outcome) ==
    IF outcome.kind = "text" THEN Strip(outcome.text)
    ELSE <<SummaryApologyText, outcome.err>>

(* Outcomes of a backend generation call: text, or an exception.            *)
TextOutcome(t) == [kind |-> "text", text |-> t]
ErrorOutcome(e) == [kind |-> "error", err |-> e]

----------------------------------------------------------------------------
(* The tools the backend may call while generate_content runs               *)
(* (agent.py line 128).                                                     *)

ToolCapabilities == {<< >>, <<"formulas">>}
ToolDifficulties == {"", "EASY"}

(* The new question the synthesis call returns as a JSON object, and an     *)
(* output that is no JSON object.                                           *)
GenPayload == [text |-> <<"How do you", " ", "freeze panes?", " ">>,
               capabilities |-> <<"Formulas">>, difficulty |-> "Medium",
               evaluation_criteria |-> <<"mentions View tab">>]
GenOutcomes ==
    { [kind |-> "object", payload |-> GenPayload],
      [kind |-> "object", payload |-> [GenPayload EXCEPT !.text = <<" ">>]],
      [kind |-> "not_json", cleaned |-> <<"Sure!", " ", "Here", " ", "is one.">>],
      [kind |-> "not_json", cleaned |-> << >>] }
    \cup {ErrorOutcome("timeout")}

(* Mutant: text that is no JSON object is dropped.                          *)
ViaLlmDroppingRawText(o, capabilities, difficulty) ==
    IF o.kind = "object" THEN o.payload
    ELSE [text |-> << >>, capabilities |-> capabilities,
          difficulty |-> IF TruthyStr(difficulty) THEN difficulty ELSE "Medium",
          evaluation_criteria |-> << >>]

(* _generate_question_via_llm lines 380-393: the parsed object, or the      *)
(* minimal payload wrapped around the cleaned text.                         *)
generate_question_via_llm(o, capabilities, difficulty) ==
    IF o.kind = "object" THEN o.payload
    ELSE [text |-> o.cleaned, capabilities |-> capabilities,
          difficulty |-> IF TruthyStr(difficulty) THEN difficulty ELSE "Medium",
          evaluation_criteria |-> << >>]

(* Whether _save_questions_to_file succeeds, for a call that reaches it; no *)
(* call does while Question(...) rejects the keyword arguments of           *)
(* add_question.                                                            *)
SaveOutcomes ==
    IF QuestionValidates(QuestionKwargs(<<"1">>, <<"c">>, "d", <<"t">>, << >>))
    THEN BOOLEAN ELSE {TRUE}

(* get_next_question(capabilities, difficulty); pick indexes the question   *)
(* random.choice returns.                                                   *)
GetNextQuestion(capabilities, difficulty) ==
    /\ pc = "backend"
    /\ toolCalls < MaxToolCalls
    /\ toolCalls' = toolCalls + 1
    /\ LET cands == select_random_question(questions, used, difficulty, capabilities)
           \* what the previous tool call of this generate_reply returned, when it
           \* was a get_next_question with the same arguments
           prev  == IF lastTool.tool = "get_next_question"
                       /\ lastTool.args = <<capabilities, difficulty>>
                    THEN Some(lastTool.id) ELSE None
           entry == [tool |-> "get_next_question", args |-> <<capabilities, difficulty>>,
                     excluded |-> used, prev_id |-> prev,
                     synth_calls |-> lastTool.synth_calls, synth |-> None,
                     id |-> << >>, text |-> NoMoreText,
                     difficulty |-> difficulty, capabilities |-> capabilities]
       IN  IF cands = << >>
           THEN /\ lastTool' = entry
                /\ used' = used
           ELSE \E pick \in 1..Len(cands) :
                /\ used' = MarkUsed(used, cands[pick].id)
                /\ lastTool' = [entry EXCEPT !.id = cands[pick].id,
                                             !.text = cands[pick].text,
                                             !.difficulty = cands[pick].difficulty,
                                             !.capabilities = cands[pick].capabilities]
    /\ UNCHANGED <<uiVars, bankVars, pc, call, response, directVars>>

(* The last tool call was a generate_question whose generation call raised. *)
SynthesisFailed(t) ==
    t.tool = "generate_question" /\ t.synth # None /\ t.synth[1].kind = "error"

(* Mutant: the payload of a failed generation carries an id.                *)
UnableWithAnId(capabilities, difficulty) ==
    [id |-> <<"1">>, text |-> UnableText,
     difficulty |-> difficulty, capabilities |-> capabilities]

(* generate_question lines 333-340: what the tool returns when anything in  *)
(* its try block raised.                                                    *)
UnableToGenerate(capabilities, difficulty) ==
    [id |-> << >>, text |-> UnableText,
     difficulty |-> difficulty, capabilities |-> capabilities]

(* generate_question(capabilities, difficulty, additional_notes): o is the  *)
(* outcome of its own generation call, save_ok of the bank file write.      *)
(* lastTool.synth_calls counts the generation calls the tool has made       *)
(* inside the current generate_reply and lastTool.synth keeps the outcome   *)
(* of the last one.                                                         *)
GenerateQuestion(capabilities, difficulty, o, save_ok) ==
    /\ pc = "backend"
    /\ toolCalls < MaxToolCalls
    /\ toolCalls' = toolCalls + 1
    /\ LET returns(p) == [tool |-> "generate_question",
                          args |-> <<capabilities, difficulty>>,
                          excluded |-> used, prev_id |-> None,
                          synth_calls |-> lastTool.synth_calls + 1, synth |-> Some(o),
                          id |-> p.id, text |-> p.text,
                          difficulty |-> p.difficulty, capabilities |-> p.capabilities]
           unable == returns(UnableToGenerate(capabilities, difficulty))
       IN  IF o.kind = "error"
           THEN lastTool' = unable /\ UNCHANGED <<used, bankVars>>
           ELSE LET payload  == generate_question_via_llm(o, capabilities, difficulty)
                    text_raw == Strip(payload.text)
                    gen_caps == payload.capabilities
                    gen_diff == IF TruthyStr(payload.difficulty) THEN payload.difficulty
                                ELSE IF TruthyStr(difficulty) THEN difficulty ELSE "Medium"
                    added    == add_question_and_get_id(questions, text_raw, gen_caps,
                                    gen_diff, None, payload.evaluation_criteria, save_ok)
                    new_id   == IF added.id = None THEN << >> ELSE added.id[1]
                IN  IF text_raw = << >>
                    THEN lastTool' = unable /\ UNCHANGED <<used, bankVars>>
                    ELSE /\ questions' = added.questions
                         /\ bank_file' \in FilesAfterAdd(bank_file, added)
                         /\ bankCall' = bankCall
                         /\ used' = MarkUsed(used, new_id)
                         /\ lastTool' = returns([id |-> new_id, text |-> text_raw,
                                                 difficulty |-> gen_diff,
                                                 capabilities |-> gen_caps])
    /\ UNCHANGED <<uiVars, pc, call, response, directVars>>

----------------------------------------------------------------------------
(* main.py: the orchestrator.  One script run is computed on a record of    *)
(* the session state; `writes` counts the transcript-file writes of the run *)
(* and `raised` says that a write raised, which aborts the run and leaves   *)
(* the session state as it then is.  failAt names the write of the run that *)
(* fails (0: none).                                                         *)

(* No generate_performance_summary request yet: their number, and the       *)
(* outcome of the evaluation call of the last one.                          *)
NoEvaluation == [calls |-> 0, outcome |-> None]

(* The transcript file of a session that has written no message yet.        *)
NoTranscript == << >>

Cur == [session_id |-> session_id, messages |-> messages, ended |-> ended,
        turn_index |-> turn_index, evaluation_generated |-> evaluation_generated,
        performance_summary |-> performance_summary, evaluation |-> evaluation,
        transcript |-> transcript, raised |-> FALSE, writes |-> 0]

Commit(u) ==
    /\ session_id' = u.session_id
    /\ messages' = u.messages
    /\ ended' = u.ended
    /\ turn_index' = u.turn_index
    /\ evaluation_generated' = u.evaluation_generated
    /\ performance_summary' = u.performance_summary
    /\ evaluation' = u.evaluation
    /\ ioFaults' = IF u.raised THEN ioFaults + 1 ELSE ioFaults
    /\ transcript' = u.transcript

(* storage/transcripts.py append_jsonl_line: one write, which may raise.    *)
append_jsonl_line(u, failAt) ==
    [u EXCEPT !.writes = @ + 1, !.raised = (u.writes + 1 = failAt)]

(* save_event_line                                                          *)
save_event_line(u, failAt) == append_jsonl_line(u, failAt)

(* save_message_line: the "message" line of the current session's file.  A  *)
(* write that raises leaves no line that load_transcript would read.        *)
save_message_line(u, role, content, index, failAt) ==
    LET w == append_jsonl_line(u, failAt)
    IN  IF w.raised THEN w
        ELSE [w EXCEPT !.transcript =
                           Append(@, [role |-> role, content |-> content,
                                      turn_index |-> index])]

(* Mutant: the index is not advanced after an append.                       *)
AppendMessageKeepingIndex(u, role, content, failAt) ==
    save_message_line(
        [u EXCEPT !.messages = Append(@, [role |-> role, content |-> content,
                                          turn_index |-> u.turn_index])],
        role, content, u.turn_index, failAt)

(* _append_message: append in memory, write the line, advance turn_index.   *)
append_message(u, role, content, failAt) ==
    LET u1 == [u EXCEPT !.messages = Append(@, [role |-> role, content |-> content,
                                                turn_index |-> u.turn_index])]
        u2 == save_message_line(u1, role, content, u.turn_index, failAt)
    IN  IF u2.raised THEN u2 ELSE [u2 EXCEPT !.turn_index = @ + 1]

(* _maybe_bootstrap_first_message                                           *)
maybe_bootstrap_first_message(u, failAt) ==
    IF u.messages = << >> /\ ~u.ended
    THEN LET e == save_event_line(u, failAt)
         IN  IF e.raised THEN e ELSE append_message(e, "assistant", BootstrapText, failAt)
    ELSE u

(* _restart_session.  The new session id names a new transcript file        *)
(* (get_session_transcript_path), which holds no line yet.                  *)
restart_session(u, failAt) ==
    LET e == save_event_line(u, failAt)
    IN  IF e.raised THEN e
        ELSE [e EXCEPT !.session_id = @ + 1, !.transcript = NoTranscript,
                       !.messages = << >>, !.ended = FALSE,
                       !.turn_index = 0, !.evaluation_generated = FALSE,
                       !.performance_summary = None,
                       !.evaluation = NoEvaluation]

(* Mutant: input is handled whether or not the session has ended.           *)
AcceptsInputAlways(user_input, is_ended) == user_input

(* main line 231: `if user_input and not st.session_state.ended`            *)
AcceptsInput(user_input, is_ended) == user_input /\ ~is_ended

(* main lines 272-292: the performance summary is requested.  sum is the    *)
(* outcome of the evaluation call: text, an exception inside                *)
(* generate_performance_summary, or "raise" for an exception that escapes   *)
(* the request.                                                             *)
RequestSummary(u, sum, failAt) ==
    LET r == [u EXCEPT !.evaluation = [calls |-> @.calls + 1, outcome |-> Some(sum)],
                       !.evaluation_generated = TRUE]
    IN  IF sum.kind = "raise"
        THEN [r EXCEPT !.performance_summary = Some(SummaryErrorText)]
        ELSE LET g == [r EXCEPT !.performance_summary =
                                    Some(generate_performance_summary(sum))]
                 w == save_event_line(g, failAt)
             IN  IF w.raised
                 THEN [w EXCEPT !.raised = FALSE,
                                !.performance_summary = Some(SummaryErrorText)]
                 ELSE w

(* Mutant: the summary is requested after every reply.                      *)
FinishTurnSummarisingEveryTurn(u, resp, sum, failAt) ==
    LET u1 == append_message(u, "assistant", resp.text, failAt)
    IN  IF u1.raised THEN u1 ELSE RequestSummary(u1, sum, failAt)

(* main lines 265-295: what follows the generate_reply call.                *)
FinishTurn(u, resp, sum, failAt) ==
    LET u1 == append_message(u, "assistant", resp.text, failAt)
        u2 == save_event_line([u1 EXCEPT !.ended = TRUE], failAt)
    IN  IF u1.raised THEN u1
        ELSE IF ~resp.end THEN u1
        ELSE IF u2.raised THEN u2
        ELSE IF u2.evaluation_generated THEN u2
        ELSE RequestSummary(u2, sum, failAt)

UserText == <<"I use Excel daily.">>

(* What the backend returns as the main reply in the orchestrated runs.     *)
RawReplies ==
    { <<"Good.">>,
      <<"Good.", " ", "[[", "END", "=", "false", " ", "QID", "=", "7", "]]", "\n">>,
      <<"Good.", "\n", "[[", "END", "=", "true", " ", "QID", "=", "none", "]]">> }

SummaryOutcomes ==
    {TextOutcome(<<"Overall: Intermediate.">>), [kind |-> "raise"]}
    \cup {ErrorOutcome(e) : e \in Errors}

FailAts == IF ioFaults < MaxIoFaults THEN 0..3 ELSE {0}

NoResponse == [how |-> "none", text |-> << >>, end |-> FALSE, metadata |-> None]
NoCall == [messages |-> << >>, state |-> None, raw |-> None, synth_failed |-> FALSE,
           main_calls |-> 0]
NoBankCall == [op |-> "none", text |-> << >>, capabilities |-> << >>, difficulty |-> "",
               question_id |-> None, save_ok |-> TRUE, before |-> << >>,
               file_before |-> [state |-> "missing", items |-> << >>],
               ok |-> FALSE, id |-> None]
(* The sessions of one process that share the bank of get_question_bank().  *)
Threads == {"s1", "s2"}
NoAdd == [pc |-> "idle", text |-> << >>, question_id |-> None, id |-> << >>,
          ok |-> FALSE]
NoAdders == [t \in Threads |-> NoAdd]
NoSelection == [op |-> "none", count |-> 0, exclude_ids |-> {}, difficulty |-> "",
                capabilities |-> << >>, bank |-> << >>, result |-> << >>]
NoParsed == [kind |-> "none", text |-> << >>, body |-> << >>, end_token |-> "",
             id_token |-> << >>, result |-> None]
NoTool == [tool |-> "none", args |-> << << >>, "" >>, excluded |-> {}, prev_id |-> None,
           synth_calls |-> 0, synth |-> None,
           id |-> << >>, text |-> << >>, difficulty |-> "", capabilities |-> << >>]

(* A script run without input (page load): only the bootstrap can act.      *)
PageLoad(failAt) ==
    /\ pc = "idle"
    /\ messages = << >> /\ ~ended
    /\ Commit(maybe_bootstrap_first_message(Cur, failAt))
    /\ UNCHANGED <<used, bankVars, pc, call, toolVars, response, replyCalls, directVars>>

(* The "Restart session" button: _restart_session, then st.rerun(), whose   *)
(* run bootstraps the new session.  The agent object kept in                *)
(* st.session_state.agent is not replaced (main lines 208-222).             *)
Restart(failAt) ==
    /\ pc = "idle"
    /\ session_id < MaxSessions
    /\ LET r == restart_session(Cur, failAt)
       IN  IF r.raised THEN Commit(r) /\ UNCHANGED <<replyCalls, response>>
           ELSE /\ Commit(maybe_bootstrap_first_message(r, failAt))
                /\ replyCalls' = 0
                /\ response' = NoResponse
    /\ UNCHANGED <<used, bankVars, pc, call, toolVars, directVars>>

(* A script run with chat input, up to the point where generate_reply has   *)
(* called the backend.                                                      *)
UserTurn(failAt) ==
    /\ pc = "idle"
    /\ Len(messages) < MaxMessages
    /\ LET b  == maybe_bootstrap_first_message(Cur, failAt)
           u1 == append_message(b, "user", UserText, failAt)
       IN  IF b.raised THEN Commit(b) /\ UNCHANGED <<pc, call, replyCalls>>
           ELSE /\ AcceptsInput(TRUE, b.ended)
                /\ Commit(u1)
                /\ IF u1.raised THEN UNCHANGED <<pc, call, replyCalls>>
                   ELSE /\ pc' = "backend"
                        /\ call' = [messages |-> u1.messages,
                                    state |-> StateDict(u1.session_id, FALSE),
                                    raw |-> None, synth_failed |-> FALSE, main_calls |-> 1]
                        /\ replyCalls' = replyCalls + 1
    /\ UNCHANGED <<used, bankVars, toolVars, response, directVars>>

(* The end of the generate_reply call in progress.                          *)
CallEnds ==
    /\ pc' = "idle"
    /\ call' = NoCall
    /\ toolCalls' = 0
    /\ lastTool' = NoTool

(* The backend returns raw text: generate_reply returns normally and the    *)
(* run goes on to its end.                                                  *)
ReplyReturns(raw, failAt) ==
    /\ pc = "backend"
    /\ LET r == GenerateReplyReturn(raw, call.messages, call.state, used)
       IN  /\ used' = r.used
           /\ response' = r.response
           /\ \E sum \in IF r.response.end THEN SummaryOutcomes
                          ELSE {[kind |-> "raise"]} :
                  Commit(FinishTurn(Cur, r.response, sum, failAt))
    /\ CallEnds
    /\ UNCHANGED <<bankVars, replyCalls, directVars>>

(* The backend call (or anything else inside the try block) raises.         *)
ReplyFallsBack(e, failAt) ==
    /\ pc = "backend"
    /\ response' = GenerateReplyFallback(e)
    /\ Commit(FinishTurn(Cur, GenerateReplyFallback(e), ErrorOutcome(e), failAt))
    /\ CallEnds
    /\ UNCHANGED <<used, bankVars, replyCalls, directVars>>

(* An exception escapes generate_reply (lines 107-120 stand outside its     *)
(* try block, before the backend is called); main substitutes its own       *)
(* reply.                                                                   *)
ReplyRaises(failAt) ==
    /\ pc = "backend"
    /\ toolCalls = 0
    /\ response' = AgentErrorResponse
    /\ Commit(FinishTurn(Cur, AgentErrorResponse, [kind |-> "raise"], failAt))
    /\ CallEnds
    /\ UNCHANGED <<used, bankVars, replyCalls, directVars>>

Init ==
    /\ session_id = 0
    /\ messages = << >>
    /\ ended = FALSE
    /\ turn_index = 0
    /\ evaluation_generated = FALSE
    /\ performance_summary = None
    /\ evaluation = NoEvaluation
    /\ used = {}
    /\ bank_file = [state |-> "list", items |-> <<Q1, Q2>>]
    /\ questions = LoadQuestions(bank_file)
    /\ bankCall = NoBankCall
    /\ pc = "idle"
    /\ call = NoCall
    /\ toolCalls = 0
    /\ lastTool = NoTool
    /\ response = NoResponse
    /\ replyCalls = 0
    /\ ioFaults = 0
    /\ transcript = NoTranscript
    /\ adders = NoAdders
    /\ selection = NoSelection
    /\ parsed = NoParsed

(* In the orchestrated runs the backend calls the tools without arguments   *)
(* (both parameters are optional); the bank holds no question there, so     *)
(* the arguments would only be echoed.                                      *)
Next ==
    \/ \E f \in FailAts : PageLoad(f)
    \/ \E f \in FailAts : Restart(f)
    \/ \E f \in FailAts : UserTurn(f)
    \/ GetNextQuestion(<< >>, "")
    \/ \E o \in GenOutcomes, ok \in SaveOutcomes : GenerateQuestion(<< >>, "", o, ok)
    \/ \E raw \in RawReplies, f \in FailAts : ReplyReturns(raw, f)
    \/ \E e \in Errors, f \in FailAts : ReplyFallsBack(e, f)
    \/ \E f \in FailAts : ReplyRaises(f)

Spec == Init /\ [][Next]_vars

----------------------------------------------------------------------------
(* The agent called directly: generate_reply and                            *)
(* generate_performance_summary applied to arguments drawn from bounded     *)
(* sets, over a bank whose list of questions is drawn too (the objects      *)
(* select_random_question and get_next_question read: id, text, difficulty, *)
(* capabilities).                                                           *)

InputBanks == { <<Q1, Q2>>, <<Q1, Q2, Q3>> }

(* A transcript with n assistant and n user messages, the user's last.      *)
TranscriptOf(n) ==
    [i \in 1..(2 * n) |->
        [role |-> IF i % 2 = 1 THEN "assistant" ELSE "user",
         content |-> IF i % 2 = 1 THEN <<"Good.">> ELSE UserText,
         turn_index |-> i - 1]]

ArgAssistantCounts == {0} \cup ((EndAfterAssistantMessages - 1)..MaxArgAssistant)
ArgStates == {None, StateDict(0, FALSE), StateDict(0, TRUE)}
(* The calls explored: every state with the shortest transcript, every      *)
(* transcript with the state main passes.                                   *)
ArgCalls == {<<0, st>> : st \in ArgStates}
            \cup {<<n, StateDict(0, FALSE)>> : n \in ArgAssistantCounts}

AgentRawReplies ==
    RawReplies \cup
    { <<"Good.", " ", "[[", "END", "=", "TRUE", " ", "QID", "=", "None", "]]">>,
      <<"[[", "END", "=", "true", " ", "QID", "=", "2", "]]", " ", "Good.">> }

InitAgent ==
    /\ session_id = 0
    /\ messages = << >>
    /\ ended = FALSE
    /\ turn_index = 0
    /\ evaluation_generated = FALSE
    /\ performance_summary = None
    /\ evaluation = NoEvaluation
    /\ used = {}
    /\ questions \in InputBanks
    /\ bank_file = [state |-> "list", items |-> questions]
    /\ bankCall = NoBankCall
    /\ pc = "idle"
    /\ call = NoCall
    /\ toolCalls = 0
    /\ lastTool = NoTool
    /\ response = NoResponse
    /\ replyCalls = 0
    /\ ioFaults = 0
    /\ transcript = NoTranscript
    /\ adders = NoAdders
    /\ selection = NoSelection
    /\ parsed = NoParsed

(* generate_reply(messages, state) is entered and calls the backend.        *)
ApiGenerateReply(n, state) ==
    /\ pc = "idle"
    /\ pc' = "backend"
    /\ call' = [messages |-> TranscriptOf(n), state |-> state, raw |-> None,
                synth_failed |-> FALSE, main_calls |-> 1]
    /\ toolCalls' = 0
    /\ lastTool' = NoTool
    /\ response' = NoResponse
    /\ UNCHANGED <<uiVars, used, bankVars, directVars>>

ApiReplyReturns(raw) ==
    /\ pc = "backend"
    /\ LET r == GenerateReplyReturn(raw, call.messages, call.state, used)
       IN  used' = r.used /\ response' = r.response
    /\ call' = [call EXCEPT !.raw = Some(raw), !.synth_failed = SynthesisFailed(lastTool)]
    /\ pc' = "idle"
    /\ toolCalls' = 0
    /\ lastTool' = NoTool
    /\ UNCHANGED <<uiVars, bankVars, directVars>>

ApiReplyFallsBack(e) ==
    /\ pc = "backend"
    /\ response' = GenerateReplyFallback(e)
    /\ call' = [call EXCEPT !.main_calls = @ + FallbackBackendCalls]
    /\ pc' = "idle"
    /\ toolCalls' = 0
    /\ lastTool' = NoTool
    /\ UNCHANGED <<uiVars, used, bankVars, directVars>>

(* generate_performance_summary(messages): the text it returns is held in  *)
(* response.                                                                *)
ApiPerformanceSummary(sum) ==
    /\ pc = "idle"
    /\ response' = [how |-> "summary", text |-> generate_performance_summary(sum),
                    end |-> FALSE, metadata |-> None]
    /\ call' = NoCall
    /\ UNCHANGED <<uiVars, used, bankVars, pc, toolVars, directVars>>

NextAgent ==
    \/ \E a \in ArgCalls : ApiGenerateReply(a[1], a[2])
    \/ \E c \in ToolCapabilities, d \in ToolDifficulties : GetNextQuestion(c, d)
    \/ \E c \in ToolCapabilities, d \in ToolDifficulties, o \in GenOutcomes,
          ok \in SaveOutcomes : GenerateQuestion(c, d, o, ok)
    \/ \E raw \in AgentRawReplies : ApiReplyReturns(raw)
    \/ \E e \in Errors : ApiReplyFallsBack(e)
    \/ \E sum \in SummaryOutcomes \ {[kind |-> "raise"]} : ApiPerformanceSummary(sum)

SpecAgent == InitAgent /\ [][NextAgent]_vars

----------------------------------------------------------------------------
(* The bank called directly: add_question, add_question_and_get_id and      *)
(* reload_question_bank applied to arguments drawn from bounded sets.  The  *)
(* list of the bank is what _load_questions made of the bank file, or, as   *)
(* for the agent above, a list of question objects handed to the methods.   *)

(* A question whose id does not parse as an integer.                        *)
QA == QuestionKwargs(<<"q-a">>, <<"Charts">>, "Easy", <<"Make a chart.">>, << >>)

BankLists == InputBanks \cup { <<QA, Q2>> }

AddTexts        == { <<" ">>, <<"What is VLOOKUP?">> }
AddCapabilities == { << >>, <<"Formulas">>, <<"Formulas", "">> }
AddDifficulties == { "", "Easy" }
AddIds          == { None, Some(<<" ">>), Some(<<"2">>), Some(<<"4">>) }

InitBank ==
    /\ session_id = 0
    /\ messages = << >>
    /\ ended = FALSE
    /\ turn_index = 0
    /\ evaluation_generated = FALSE
    /\ performance_summary = None
    /\ evaluation = NoEvaluation
    /\ used = {}
    /\ bank_file \in BankFiles
    /\ questions \in {LoadQuestions(bank_file)} \cup BankLists
    /\ bankCall = NoBankCall
    /\ pc = "idle"
    /\ call = NoCall
    /\ toolCalls = 0
    /\ lastTool = NoTool
    /\ response = NoResponse
    /\ replyCalls = 0
    /\ ioFaults = 0
    /\ transcript = NoTranscript
    /\ adders = NoAdders
    /\ selection = NoSelection
    /\ parsed = NoParsed

BankCallOf(op, text, capabilities, difficulty, question_id, save_ok) ==
    [op |-> op, text |-> text, capabilities |-> capabilities, difficulty |-> difficulty,
     question_id |-> question_id, save_ok |-> save_ok, before |-> questions,
     file_before |-> bank_file, ok |-> FALSE, id |-> None]

(* question_bank.add_question(text, capabilities, difficulty, question_id)  *)
ApiAddQuestion(text, capabilities, difficulty, question_id, save_ok) ==
    /\ Len(questions) < MaxBankSize
    /\ LET r == add_question(questions, text, capabilities, difficulty, question_id,
                             << >>, save_ok)
       IN  /\ questions' = r.questions
           /\ bank_file' \in FilesAfterAdd(bank_file, r)
           /\ bankCall' = [BankCallOf("add_question", text, capabilities, difficulty,
                                      question_id, save_ok)
                             EXCEPT !.ok = r.ok,
                                    !.id = IF r.ok THEN Some(r.id) ELSE None]
    /\ UNCHANGED <<uiVars, used, pc, call, toolVars, response, directVars>>

(* question_bank.add_question_and_get_id(text, capabilities, difficulty,    *)
(* question_id)                                                             *)
ApiAddQuestionAndGetId(text, capabilities, difficulty, question_id, save_ok) ==
    /\ Len(questions) < MaxBankSize
    /\ LET r == add_question_and_get_id(questions, text, capabilities, difficulty,
                                        question_id, << >>, save_ok)
       IN  /\ questions' = r.questions
           /\ bank_file' \in FilesAfterAdd(bank_file, r)
           /\ bankCall' = [BankCallOf("add_question_and_get_id", text, capabilities,
                                      difficulty, question_id, save_ok)
                             EXCEPT !.ok = (r.id # None), !.id = r.id]
    /\ UNCHANGED <<uiVars, used, pc, call, toolVars, response, directVars>>

(* reload_question_bank(): a new QuestionBank loads the file.               *)
ApiReload ==
    /\ questions' = LoadQuestions(bank_file)
    /\ bankCall' = [BankCallOf("load", << >>, << >>, "", None, TRUE) EXCEPT !.ok = TRUE]
    /\ selection' = NoSelection
    /\ UNCHANGED <<uiVars, used, bank_file, pc, call, toolVars, response, adders, parsed>>

(* question_bank._save_questions_to_file(): the list in memory is written   *)
(* to the bank file.                                                        *)
ApiSave(save_ok) ==
    /\ bank_file' \in save_questions_to_file(bank_file, questions, save_ok)
    /\ bankCall' = [BankCallOf("save", << >>, << >>, "", None, save_ok)
                      EXCEPT !.ok = save_ok]
    /\ UNCHANGED <<uiVars, used, questions, pc, call, toolVars, response, directVars>>

NextBank ==
    \/ \E t \in AddTexts, c \in AddCapabilities, d \in AddDifficulties, q \in AddIds,
          ok \in BOOLEAN : ApiAddQuestion(t, c, d, q, ok)
    \/ \E t \in AddTexts, c \in AddCapabilities, d \in AddDifficulties, q \in AddIds,
          ok \in BOOLEAN : ApiAddQuestionAndGetId(t, c, d, q, ok)
    \/ ApiReload
    \/ \E ok \in BOOLEAN : ApiSave(ok)

SpecBank == InitBank /\ [][NextBank]_vars

----------------------------------------------------------------------------
(* The selection methods called directly, with arguments drawn from bounded *)
(* sets, on the banks of InitBank; reload_question_bank() loads the file.   *)

SelExcludes     == { {}, {<<"1">>}, {<<"1">>, <<"2">>}, {<<"9">>} }
SelDifficulties == { "", "Easy", "EASY", "hard" }
SelCapabilities == { << >>, <<"formulas">>, <<"PIVOT">>, <<"Pivot", "Charts">> }
SelCounts       == 0..MaxCount
FilterDifficulties == { "Easy", "EASY", "hard" }
FilterCapabilities == { "formulas", "FORMULAS", "PIVOT", "Charts" }

SelectionOf(op, count, exclude_ids, difficulty, capabilities, result) ==
    [op |-> op, count |-> count, exclude_ids |-> exclude_ids, difficulty |-> difficulty,
     capabilities |-> capabilities, bank |-> questions, result |-> result]

(* question_bank.select_random_question(exclude_ids, difficulty,            *)
(* capabilities): None (the empty result) or one of the candidates.         *)
ApiSelectRandom(exclude_ids, difficulty, capabilities) ==
    /\ LET c == select_random_question(questions, exclude_ids, difficulty, capabilities)
       IN  \E r \in IF c = << >> THEN {<< >>} ELSE {<<c[i]>> : i \in 1..Len(c)} :
              selection' = SelectionOf("select_random_question", 1, exclude_ids,
                                       difficulty, capabilities, r)
    /\ UNCHANGED <<uiVars, agentVars, bankVars, adders, parsed>>

(* question_bank.select_questions(count, exclude_ids, difficulty,           *)
(* capabilities)                                                            *)
ApiSelectQuestions(count, exclude_ids, difficulty, capabilities) ==
    /\ \E r \in select_questions(questions, count, exclude_ids, difficulty, capabilities) :
          selection' = SelectionOf("select_questions", count, exclude_ids, difficulty,
                                   capabilities, r)
    /\ UNCHANGED <<uiVars, agentVars, bankVars, adders, parsed>>

(* The list comprehension of get_questions_by_capability applied to what    *)
(* get_questions_by_difficulty returned.                                    *)
ApiFilter(difficulty, capability) ==
    /\ selection' = SelectionOf("filter", 0, {}, difficulty, <<capability>>,
                                get_questions_by_capability(
                                    get_questions_by_difficulty(questions, difficulty),
                                    capability))
    /\ UNCHANGED <<uiVars, agentVars, bankVars, adders, parsed>>

NextSelect ==
    \/ \E e \in SelExcludes, d \in SelDifficulties, c \in SelCapabilities :
          ApiSelectRandom(e, d, c)
    \/ \E n \in SelCounts, e \in SelExcludes, d \in SelDifficulties, c \in SelCapabilities :
          ApiSelectQuestions(n, e, d, c)
    \/ \E d \in FilterDifficulties, c \in FilterCapabilities : ApiFilter(d, c)
    \/ ApiReload

SpecSelect == InitBank /\ [][NextSelect]_vars

----------------------------------------------------------------------------
(* A run of the bank after it was loaded: adds, selections and accessor     *)
(* calls in any order, with arguments from small sets.                      *)

RunIds          == { None, Some(<<"2">>) }
RunExcludes     == { {}, {<<"1">>} }
RunDifficulties == { "", "EASY" }
RunCounts       == { 1, 2 }

(* question_bank.get_all_questions(): a copy of the list.                   *)
ApiGetAllQuestions ==
    /\ selection' = SelectionOf("get_all_questions", 0, {}, "", << >>, questions)
    /\ UNCHANGED <<uiVars, agentVars, bankVars, adders, parsed>>

NextRun ==
    \/ \E t \in AddTexts, q \in RunIds, ok \in BOOLEAN :
          ApiAddQuestion(t, <<"Formulas">>, "Easy", q, ok)
    \/ \E t \in AddTexts, q \in RunIds, ok \in BOOLEAN :
          ApiAddQuestionAndGetId(t, <<"Formulas">>, "Easy", q, ok)
    \/ \E e \in RunExcludes, d \in RunDifficulties : ApiSelectRandom(e, d, << >>)
    \/ \E n \in RunCounts, e \in RunExcludes, d \in RunDifficulties :
          ApiSelectQuestions(n, e, d, << >>)
    \/ ApiGetAllQuestions

SpecRun == InitBank /\ [][NextRun]_vars

----------------------------------------------------------------------------
(* Two sessions of one process call add_question on the bank they share     *)
(* (get_question_bank() hands every caller the same instance, and each      *)
(* session runs in a thread of its own).  The steps of a call are the       *)
(* statements of add_question; between two of them the other thread can     *)
(* run, since the method takes no lock.                                     *)

ConcTexts == AddTexts
ConcIds == { None, Some(<<"3">>) }
ConcCapabilities == <<"Formulas">>
ConcDifficulty == "Easy"

Finish(t, ok) == adders' = [adders EXCEPT ![t].pc = "done", ![t].ok = ok]

(* Lines 274-291: the call is entered and its arguments are validated.      *)
AddEnter(t, text, question_id) ==
    /\ adders[t].pc \in {"idle", "done"}
    /\ Len(questions) < MaxBankSize
    /\ adders' = [adders EXCEPT ![t] =
                     [pc |-> IF Strip(text) = << >> THEN "done" ELSE "id",
                      text |-> text, question_id |-> question_id, id |-> << >>,
                      ok |-> FALSE]]
    /\ UNCHANGED <<uiVars, agentVars, bankVars, selection, parsed>>

(* Lines 293-298: the id is generated if none was given.                    *)
AddGenerateId(t) ==
    /\ adders[t].pc = "id"
    /\ LET a == adders[t] IN
       IF a.question_id = None
       THEN adders' = [adders EXCEPT ![t].pc = "check",
                                     ![t].id = generate_unique_id(questions)]
       ELSE IF Strip(a.question_id[1]) = << >> THEN Finish(t, FALSE)
       ELSE adders' = [adders EXCEPT ![t].pc = "check", ![t].id = a.question_id[1]]
    /\ UNCHANGED <<uiVars, agentVars, bankVars, selection, parsed>>

(* Lines 300-304: the id is looked up among the ids of the bank.            *)
AddCheckId(t) ==
    /\ adders[t].pc = "check"
    /\ IF \E i \in 1..Len(questions) : questions[i].id = adders[t].id
       THEN Finish(t, FALSE)
       ELSE adders' = [adders EXCEPT ![t].pc = "create"]
    /\ UNCHANGED <<uiVars, agentVars, bankVars, selection, parsed>>

(* Lines 306-329, the try block: the question is constructed and appended   *)
(* (pc "create"), then the bank is saved and, if that fails, the last       *)
(* element of the list is popped (pc "save").  An exception of the          *)
(* constructor ends the call with False.                                    *)
AddCreate(t, save_ok) ==
    /\ adders[t].pc \in {"create", "save"}
    /\ LET a == adders[t]
           kwargs == QuestionKwargs(a.id, ConcCapabilities, ConcDifficulty,
                                    Strip(a.text), << >>)
       IN  IF a.pc = "create"
           THEN IF ~QuestionValidates(kwargs)
                THEN Finish(t, FALSE) /\ UNCHANGED <<questions, bank_file>>
                ELSE /\ questions' = Append(questions, kwargs)
                     /\ adders' = [adders EXCEPT ![t].pc = "save"]
                     /\ UNCHANGED bank_file
           ELSE IF save_ok
                THEN /\ bank_file' \in save_questions_to_file(bank_file, questions, TRUE)
                     /\ Finish(t, TRUE)
                     /\ UNCHANGED questions
                ELSE /\ bank_file' \in save_questions_to_file(bank_file, questions, FALSE)
                     /\ questions' = SubSeq(questions, 1, Len(questions) - 1)
                     /\ Finish(t, FALSE)
    /\ UNCHANGED <<uiVars, agentVars, bankCall, selection, parsed>>

NextConc ==
    \/ \E t \in Threads, text \in ConcTexts, q \in ConcIds : AddEnter(t, text, q)
    \/ \E t \in Threads : AddGenerateId(t)
    \/ \E t \in Threads : AddCheckId(t)
    \/ \E t \in Threads, ok \in BOOLEAN : AddCreate(t, ok)

SpecConc == InitBank /\ [][NextConc]_vars

----------------------------------------------------------------------------
(* The parser called directly on texts drawn from bounded sets: texts that  *)
(* end with a marker, built from a body, the whitespace after it, the       *)
(* tokens of the marker and trailing whitespace, and texts that do not.     *)

ParseBodies ==
    { << >>,
      <<"Great answer!">>,
      <<"Let's continue.", " ">>,
      <<"Hi", "\n", "there">>,
      <<"see", " ", "[[", "note", "]]">>,
      <<"[[", "END", "=", "true", " ", "QID", "=", "1", "]]", " ", "Next.">> }
ParseGaps  == { << >>, <<" ">>, <<"\n", " ">> }
EndTokens  == { "true", "TRUE", "True", "false", "FALSE" }
IdTokens   == { <<"7">>, <<"none">>, <<"None">>, <<"NULL">>, <<"null">>,
                <<"q", " ", "7">>, <<" ">> }
ParseTails == { << >>, <<" ">>, <<"\n">> }

(* The marker with END token e and QID token id, written tightly or with    *)
(* lower-case keywords and whitespace around every token.                   *)
MarkerOf(e, id, spaced) ==
    IF spaced
    THEN <<"[[", " ", "end", " ", "=", " ", e, "\n", "qid", " ", "=", " ">> \o id
         \o <<" ", "]]">>
    ELSE <<"[[", "END", "=", e, " ", "QID", "=">> \o id \o <<"]]">>

(* Marker-like blocks the pattern does not accept.                          *)
MalformedMarkers ==
    { <<"[[", "END", "=", "true", "]]">>,
      <<"[[", "END", "=", "maybe", " ", "QID", "=", "7", "]]">>,
      <<"[", "END", "=", "true", " ", "QID", "=", "7", "]">>,
      <<"[[", "END", "=", "true", "QID", "=", "7", "]]">>,
      <<"[[", "END", "=", "true", " ", "QID", "=", "]]">>,
      <<"[[", "END", "=", "true", " ", "QID", "=", "7", "]">>,
      <<"[[", "END", "true", " ", "QID", "=", "7", "]]">>,
      <<"END", "=", "true", " ", "QID", "=", "7">>,
      <<"[[", "QID", "=", "7", " ", "END", "=", "true", "]]">> }

(* Text that follows a marker.                                              *)
AfterTexts == { <<" ", "Thanks.">>, <<".">>, <<"\n", "]]">> }

(* Texts without a marker at their end: plain text, text that ends with a   *)
(* malformed marker, and text with a marker that other text follows.        *)
UnmarkedTexts ==
    ParseBodies
    \cup {b \o g \o m \o t : b \in ParseBodies, g \in ParseGaps, m \in MalformedMarkers,
                             t \in ParseTails}
    \cup {b \o g \o MarkerOf(e, <<"7">>, sp) \o a :
            b \in ParseBodies, g \in ParseGaps, e \in {"true", "FALSE"}, sp \in BOOLEAN,
            a \in AfterTexts}

(* The texts handed to the parser, with the parts they were built from.     *)
ParseInput(kind, text, body, e, id) ==
    [kind |-> kind, text |-> text, body |-> body, end_token |-> e, id_token |-> id,
     result |-> None]

ParseInputs ==
    {ParseInput("marked", b \o g \o MarkerOf(e, id, sp) \o t, b, e, id) :
        b \in ParseBodies, g \in ParseGaps, e \in EndTokens, id \in IdTokens,
        sp \in BOOLEAN, t \in ParseTails}
    \cup {ParseInput("unmarked", t, t, "", << >>) : t \in UnmarkedTexts}

InitParse ==
    /\ session_id = 0
    /\ messages = << >>
    /\ ended = FALSE
    /\ turn_index = 0
    /\ evaluation_generated = FALSE
    /\ performance_summary = None
    /\ evaluation = NoEvaluation
    /\ used = {}
    /\ questions = << >>
    /\ bank_file = [state |-> "missing", items |-> << >>]
    /\ bankCall = NoBankCall
    /\ pc = "idle"
    /\ call = NoCall
    /\ toolCalls = 0
    /\ lastTool = NoTool
    /\ response = NoResponse
    /\ replyCalls = 0
    /\ ioFaults = 0
    /\ transcript = NoTranscript
    /\ adders = NoAdders
    /\ selection = NoSelection
    /\ parsed \in ParseInputs

(* parse_response_flags_and_clean_text(text)                                *)
Parse ==
    /\ parsed.result = None
    /\ parsed' = [parsed EXCEPT
                    !.result = Some(parse_response_flags_and_clean_text(parsed.text))]
    /\ UNCHANGED <<uiVars, agentVars, bankVars, adders, selection>>

NextParse == Parse

SpecParse == InitParse /\ [][NextParse]_vars

----------------------------------------------------------------------------
(* Properties.                                                              *)

UserCount(msgs) == Cardinality({i \in 1..Len(msgs) : msgs[i].role = "user"})

(* A text shows the raw message of an exception.                            *)
ShowsError(text) == \E i \in 1..Len(text) : text[i] \in Errors

(* C1: every session starts with an empty used-question-id set: as long as  *)
(* a session has made no generate_reply call its agent's used-id set is     *)
(* empty, and the first tool call of its first turn, when it is a           *)
(* get_next_question, is handed an empty exclusion set.                     *)
C1_NewSessionStartsWithEmptyUsedSet ==
    /\ replyCalls = 0 => used = {}
    /\ (pc = "backend" /\ replyCalls = 1 /\ toolCalls = 1
        /\ lastTool.tool = "get_next_question") => lastTool.excluded = {}

(* A bank question q passes the filters a get_next_question call was given. *)
PassesFilters(q, capabilities, difficulty) ==
    /\ (difficulty # "" => Lower(q.difficulty) = Lower(difficulty))
    /\ (capabilities # << >> =>
          {Lower(capabilities[i]) : i \in 1..Len(capabilities)}
          \cap {Lower(q.capabilities[j]) : j \in 1..Len(q.capabilities)} # {})

(* C2: get_next_question never returns a question whose id was in the used  *)
(* set when it was called, and it returns the empty-id sentinel exactly     *)
(* when every bank question that passes its filters was already used.       *)
C2_NeverReturnsUsedQuestion ==
    lastTool.tool = "get_next_question" =>
        /\ lastTool.id \notin lastTool.excluded
        /\ lastTool.id # << >> =>
              \E i \in 1..Len(questions) :
                  /\ questions[i].id = lastTool.id
                  /\ PassesFilters(questions[i], lastTool.args[1], lastTool.args[2])
        /\ lastTool.id = << >> <=>
              \A i \in 1..Len(questions) :
                  \/ questions[i].id \in lastTool.excluded
                  \/ ~PassesFilters(questions[i], lastTool.args[1], lastTool.args[2])

(* C2 witness: a fetch returned the sentinel although the bank holds        *)
(* questions that pass its filters: all of them had been used.              *)
C2_Witness ==
    /\ lastTool.tool = "get_next_question"
    /\ lastTool.id = << >>
    /\ \E i \in 1..Len(questions) :
          /\ PassesFilters(questions[i], lastTool.args[1], lastTool.args[2])
          /\ questions[i].id \in lastTool.excluded

(* C3: the id get_next_question returns is in the used set when it returns, *)
(* so a second fetch of the same generate_reply call with the same filters  *)
(* returns another question or the sentinel.                                *)
C3_FetchMarksUsedImmediately ==
    (pc = "backend" /\ lastTool.tool = "get_next_question") =>
        /\ lastTool.id # << >> => lastTool.id \in used
        /\ (lastTool.prev_id # None /\ lastTool.prev_id[1] # << >>) =>
              lastTool.id # lastTool.prev_id[1]

(* C3 witness: two successive fetches with the same filters inside one      *)
(* generate_reply call returned two different questions.                    *)
C3_Witness ==
    /\ pc = "backend"
    /\ lastTool.tool = "get_next_question"
    /\ lastTool.prev_id # None
    /\ lastTool.prev_id[1] # << >>
    /\ lastTool.id \notin {<< >>, lastTool.prev_id[1]}

(* C4: the used-id set only grows: no step of the agent removes an id.      *)
C4_UsedSetOnlyGrows == [][used \subseteq used']_vars

(* C4 witness: the set holds several ids and a generate_reply call has      *)
(* just ended on its failure path.                                          *)
C4_Witness == Cardinality(used) >= 2 /\ response.how = "fallback"

(* C5: a generate_reply call whose backend call succeeded returns end=true  *)
(* exactly when the decoded marker says END=true or the transcript passed   *)
(* in holds at least 10 assistant messages.                                 *)
C5_EndIffMarkerOrTenAssistantMessages ==
    (response.how = "returned" /\ call.raw # None) =>
        (response.end <=>
            \/ parse_response_flags_and_clean_text(Strip(call.raw[1])).end_flag
            \/ AssistantCount(call.messages) >= 10)

(* C5 witness: a call ended the interview on the message count alone.       *)
C5_Witness ==
    /\ response.how = "returned" /\ call.raw # None
    /\ response.end
    /\ ~parse_response_flags_and_clean_text(Strip(call.raw[1])).end_flag
    /\ AssistantCount(call.messages) = 10

(* C6: a generate_reply call given a state whose force_end is true returns  *)
(* end=true.                                                                *)
C6_ForceEndEndsTheInterview ==
    (response.how \in {"returned", "fallback"}
     /\ call.state # None /\ call.state[1].force_end) => response.end

(* C7: once ended is true it stays true until a restart opens a new         *)
(* session, and meanwhile the transcript does not change and generate_reply *)
(* is not called.                                                           *)
C7_EndedIsTerminal ==
    [][ended => \/ session_id' # session_id
                \/ /\ ended'
                   /\ messages' = messages
                   /\ replyCalls' = replyCalls
                   /\ pc' = "idle"]_vars

(* C7 witness: a session has ended after at least one user turn.            *)
C7_Witness == ended /\ UserCount(messages) >= 1 /\ pc = "idle"

(* C8: when the backend call of the main reply fails, generate_reply        *)
(* returns the fallback response: a fixed apology text (one that does not   *)
(* vary with the error), end=false, and an error descriptor in metadata.    *)
C8_FallbackIsFixedApology ==
    response.how = "fallback" =>
        /\ ~ShowsError(response.text)
        /\ response.end = FALSE
        /\ "error" \in DOMAIN response.metadata

(* C9: no text of the transcript and no performance summary shows the raw   *)
(* message of an exception.                                                 *)
C9_NoRawExceptionTextShown ==
    /\ \A i \in 1..Len(messages) : ~ShowsError(messages[i].content)
    /\ performance_summary # None => ~ShowsError(performance_summary[1])

(* C10: each accepted user message triggers exactly one generate_reply call *)
(* and appends exactly one assistant message: between turns the session has *)
(* as many user messages as generate_reply calls and as assistant messages  *)
(* after the bootstrap message.                                             *)
C10_OneReplyPerUserMessage ==
    pc = "idle" =>
        /\ UserCount(messages) = replyCalls
        /\ messages # << >> => AssistantCount(messages) = replyCalls + 1

(* C11: one generate_reply call issues at most 2 backend generation calls:  *)
(* the main reply call and at most one question-synthesis call.             *)
C11_AtMostTwoGenerationCalls ==
    pc = "backend" => 1 + lastTool.synth_calls <= 2

(* C12: the performance summary is requested only at termination: a step   *)
(* that requests it appends the turn's assistant reply first and leaves the *)
(* session ended, and it is the only request of the session.                *)
C12_SummaryOnlyAtTerminationAndOnce ==
    [][evaluation'.calls > evaluation.calls =>
          /\ evaluation.calls = 0 /\ evaluation'.calls = 1
          /\ session_id' = session_id
          /\ ended'
          /\ ~ended
          /\ response'.end
          /\ messages' = Append(messages, [role |-> "assistant",
                                           content |-> response'.text,
                                           turn_index |-> turn_index])]_vars

(* C12 witness: a session that ended with its one summary request made.     *)
C12_Witness ==
    evaluation.calls = 1 /\ ended /\ UserCount(messages) >= 1 /\ performance_summary # None

(* C13: when the evaluation call fails, generate_performance_summary        *)
(* returns an apology text, and the session is ended with a non-empty       *)
(* performance summary stored.                                              *)
C13_EvaluationFailureStillEnds ==
    /\ \A e \in Errors :
          /\ generate_performance_summary(ErrorOutcome(e)) # << >>
          /\ generate_performance_summary(ErrorOutcome(e))[1] = SummaryApologyText
    /\ (evaluation.outcome # None /\ evaluation.outcome[1].kind = "error") =>
          /\ ended
          /\ evaluation_generated
          /\ performance_summary # None
          /\ performance_summary[1] # << >>
          /\ performance_summary[1][1] \in {SummaryApologyText, SummaryErrorText[1]}

(* C13 witness: the evaluation call of an ended session failed and the      *)
(* apology of generate_performance_summary is the stored summary.           *)
C13_Witness ==
    /\ evaluation.outcome # None /\ evaluation.outcome[1].kind = "error"
    /\ ended
    /\ performance_summary # None
    /\ performance_summary[1][1] = SummaryApologyText

(* C14: when the backend call of the generate_question tool fails, the tool *)
(* returns the 'unable to generate' payload with an empty id and leaves the *)
(* bank and the used-id set as they were, and the generate_reply call       *)
(* around it goes on (it is still in progress and has produced no fallback),*)
(* so that it can still return a normal response.                           *)
C14_SynthesisFailureIsRecovered ==
    [][(toolCalls' = toolCalls + 1 /\ SynthesisFailed(lastTool')) =>
            /\ lastTool'.id = << >>
            /\ lastTool'.text = UnableText
            /\ used' = used
            /\ questions' = questions
            /\ bank_file' = bank_file
            /\ pc' = "backend"
            /\ response' = response]_vars

(* C14 witness: a generate_reply call returned a normal response after the  *)
(* synthesis of its last tool call had failed, with ids already used.       *)
C14_Witness ==
    /\ pc = "idle"
    /\ call.synth_failed
    /\ response.how = "returned"
    /\ response.text = <<"Good.">>
    /\ used # {}

(* The last tool call was a generate_question whose generation call         *)
(* returned text that is no JSON object.                                    *)
SynthesisNotJson(t) ==
    t.tool = "generate_question" /\ t.synth # None /\ t.synth[1].kind = "not_json"

(* What C15 promises of such a call: the question returned has the cleaned  *)
(* raw text as its text, the caller's capabilities (none when the caller    *)
(* supplied none), and no criteria go to the bank.                          *)
ReturnsCleanedText(t) ==
    /\ t.text = t.synth[1].cleaned
    /\ t.capabilities = t.args[1]
    /\ generate_question_via_llm(t.synth[1], t.args[1], t.args[2]).evaluation_criteria
          = << >>

(* C15 as stated: whenever the synthesis backend returns text that is not a *)
(* JSON object, generate_question returns a question whose text is the      *)
(* cleaned raw text, with empty capabilities and criteria when the caller   *)
(* supplied none.                                                           *)
C15_NotJsonBecomesQuestionText ==
    SynthesisNotJson(lastTool) => ReturnsCleanedText(lastTool)

(* C15 amended: that holds when the cleaned raw text is not empty; when it  *)
(* is empty the tool returns the 'unable to generate' payload with an empty *)
(* id.                                                                      *)
C15_NotJsonBecomesQuestionTextUnlessEmpty ==
    SynthesisNotJson(lastTool) =>
        IF Strip(lastTool.synth[1].cleaned) # << >>
        THEN ReturnsCleanedText(lastTool)
        ELSE /\ lastTool.text = UnableText
             /\ lastTool.id = << >>
             /\ lastTool.capabilities = lastTool.args[1]

(* C15 witness: a call without capabilities got text that is no JSON object *)
(* and returned it as a question without capabilities.                      *)
C15_Witness ==
    /\ SynthesisNotJson(lastTool)
    /\ lastTool.synth[1].cleaned # << >>
    /\ lastTool.args[1] = << >>
    /\ lastTool.text = lastTool.synth[1].cleaned
    /\ lastTool.capabilities = << >>

(* C16: every question the generate_question tool returns with a text other *)
(* than the 'unable to generate' sentinel has been added to the bank and    *)
(* its id is in the used-id set: the id is not empty and names a record of  *)
(* the bank.                                                                *)
C16_GeneratedQuestionIsPersistedAndUsed ==
    (pc = "backend" /\ lastTool.tool = "generate_question"
     /\ lastTool.text # UnableText) =>
        /\ lastTool.id # << >>
        /\ lastTool.id \in used
        /\ \E i \in 1..Len(questions) : questions[i].id = lastTool.id
        /\ bank_file.state = "list"
        /\ \E i \in 1..Len(bank_file.items) : bank_file.items[i].id = lastTool.id

(* The last call on the bank was an add.                                    *)
IsAdd(c) == c.op \in {"add_question", "add_question_and_get_id"}

(* The arguments of an add pass the validation of text, capabilities and    *)
(* difficulty.                                                              *)
ValidAddArguments(c) ==
    /\ Strip(c.text) # << >>
    /\ c.capabilities # << >>
    /\ \A i \in 1..Len(c.capabilities) : c.capabilities[i] # ""
    /\ c.difficulty # ""

(* The supplied id of an add is the id of a record the bank held.           *)
IdCollides(c) ==
    /\ c.question_id # None
    /\ \E i \in 1..Len(c.before) : c.before[i].id = c.question_id[1]

(* C17: an add whose supplied id is the id of an existing record fails and  *)
(* leaves the bank as it was, in memory and on disk.                        *)
C17_CollidingIdIsRejected ==
    (IsAdd(bankCall) /\ IdCollides(bankCall)) =>
        /\ ~bankCall.ok
        /\ bankCall.id = None
        /\ questions = bankCall.before
        /\ Len(questions) = Len(bankCall.before)
        /\ bank_file = bankCall.file_before

(* C17 witness: an add that nothing but its id speaks against was made on a *)
(* bank holding a record of that id.                                        *)
C17_Witness ==
    /\ bankCall.op = "add_question"
    /\ IdCollides(bankCall)
    /\ ValidAddArguments(bankCall)
    /\ bankCall.save_ok
    /\ ~bankCall.ok

(* The ids of a list of records are pairwise distinct.                      *)
DistinctIds(qs) == \A i, j \in 1..Len(qs) : i # j => qs[i].id # qs[j].id

(* C18: the ids of the records of the bank are pairwise distinct, after a   *)
(* load from any file and any sequence of adds.                             *)
C18_BankIdsAreDistinct == DistinctIds(questions)

(* C18 witness: the bank was loaded from a file in which two records share  *)
(* an id.                                                                   *)
C18_Witness ==
    /\ bankCall.op = "load"
    /\ bankCall.file_before.state = "list"
    /\ ~DistinctIds(bankCall.file_before.items)

(* The id C19 expects of an add without id: one more than the largest id    *)
(* that parses as an integer, "1" if none does.                             *)
ExpectedNewId(qs) ==
    LET nums == {IntOfId(qs[i].id) : i \in 1..Len(qs)} \ {0}
    IN  IF nums = {} THEN <<"1">>
        ELSE IdOfInt((CHOOSE n \in nums : \A m \in nums : m <= n) + 1)

(* C19: an add without id, given valid text, capabilities and difficulty    *)
(* (and a bank file that can be written), succeeds, and the record it       *)
(* appends has the id one greater than the largest integer id of the bank,  *)
(* "1" if there is none; on an empty bank the bank then holds one record,   *)
(* of id "1".                                                               *)
C19_AddWithoutIdAssignsNextId ==
    (bankCall.op = "add_question" /\ bankCall.question_id = None
     /\ ValidAddArguments(bankCall) /\ bankCall.save_ok) =>
        /\ bankCall.ok
        /\ Len(questions) = Len(bankCall.before) + 1
        /\ SubSeq(questions, 1, Len(bankCall.before)) = bankCall.before
        /\ questions[Len(questions)].id = ExpectedNewId(bankCall.before)
        /\ bankCall.before = << >> =>
              (Len(questions) = 1 /\ questions[1].id = <<"1">>)

FileHoldsBank(file, qs) == file.state = "list" /\ file.items = qs

InAddSection(t) == adders[t].pc \in {"check", "create"}

(* C22: two add calls without id that run at the same time on the shared    *)
(* bank never leave two records of the same id, and the steps from the id   *)
(* computation to the append of one call do not interleave with those of    *)
(* the other: the two calls are never both between their id computation and *)
(* their append.                                                            *)
C22_ConcurrentAddsAreSerialized ==
    /\ DistinctIds(questions)
    /\ \A t, u \in Threads :
          (t # u /\ adders[t].question_id = None /\ adders[u].question_id = None)
              => ~(InAddSection(t) /\ InAddSection(u))

(* The last call on the bank was a selection.                               *)
IsSelect(c) == c.op \in {"select_random_question", "select_questions"}

(* C23: load raises nothing, and after a load from a file that is missing   *)
(* or cannot be parsed the bank is empty, its count is 0, and every         *)
(* selection made on it returns no candidate.                               *)
C23_UnreadableFileGivesEmptyBank ==
    (bankCall.op = "load" /\ bankCall.file_before.state \in {"missing", "corrupt"}) =>
        /\ bankCall.ok
        /\ questions = << >>
        /\ Len(questions) = 0
        /\ IsSelect(selection) => selection.result = << >>

(* C23 witness: a bank that held records was reloaded from an unparsable    *)
(* file, and a selection of up to two questions was then made on it.        *)
C23_Witness ==
    /\ bankCall.op = "load"
    /\ bankCall.file_before.state = "corrupt"
    /\ bankCall.before # << >>
    /\ selection.op = "select_questions"
    /\ selection.count = 2
    /\ selection.result = << >>

(* C24: loading a bank file of N records yields a bank of the same N        *)
(* records (id, text, difficulty, capabilities, evaluation_criteria), and   *)
(* after a successful add the file loads to the records of the memory.      *)
C24_PersistLoadRoundTrip ==
    /\ (bankCall.op = "load" /\ bankCall.file_before.state = "list") =>
          /\ Len(questions) = Len(bankCall.file_before.items)
          /\ questions = bankCall.file_before.items
    /\ (IsAdd(bankCall) /\ bankCall.ok) => LoadQuestions(bank_file) = questions

(* The question q meets the three criteria of a selection.                  *)
Survives(q, exclude_ids, difficulty, capabilities) ==
    q.id \notin exclude_ids /\ PassesFilters(q, capabilities, difficulty)

Survivors(c) ==
    {i \in 1..Len(c.bank) :
        Survives(c.bank[i], c.exclude_ids, c.difficulty, c.capabilities)}

(* C25: select_random returns a question only if its id is not excluded,    *)
(* its difficulty is the given one ignoring case (when one is given) and it *)
(* shares a capability with the given ones ignoring case (when some are     *)
(* given); every such question is among those it draws from; and it returns *)
(* None exactly when there is no such question.                             *)
C25_SelectRandomHonoursTheThreeFilters ==
    selection.op = "select_random_question" =>
        LET S == Survivors(selection)
            c == select_random_question(selection.bank, selection.exclude_ids,
                                        selection.difficulty, selection.capabilities)
        IN  /\ selection.result = << >> <=> S = {}
            /\ selection.result # << >> =>
                  \E i \in S : selection.result[1] = selection.bank[i]
            /\ {c[k] : k \in 1..Len(c)} = {selection.bank[i] : i \in S}

(* C25 witness: with an exclusion, a difficulty and a capability given in   *)
(* another case than the bank spells them, a question was returned from a   *)
(* bank that also holds questions each filter rejects.                      *)
C25_Witness ==
    /\ selection.op = "select_random_question"
    /\ selection.exclude_ids = {<<"1">>}
    /\ selection.difficulty = "EASY"
    /\ selection.capabilities = <<"formulas">>
    /\ Len(selection.bank) = 3
    /\ selection.result # << >>
    /\ selection.result[1].difficulty = "easy"

(* The spellings of the difficulties and capabilities, in three cases.      *)
AllSpellings == {"EASY", "Easy", "easy", "HARD", "Hard", "hard", "FORMULAS", "Formulas",
                 "formulas", "PIVOT", "Pivot", "pivot", "Charts"}
Spellings(t) == {u \in AllSpellings : Lower(u) = Lower(t)}

(* C26: filtering by difficulty then by capability gives the same questions *)
(* as filtering by capability then by difficulty, and so does any other     *)
(* spelling of the difficulty or the capability in upper or lower case;     *)
(* the two filters of the selection methods commute in the same way.        *)
C26_FiltersCommuteAndIgnoreCase ==
    selection.op = "filter" =>
        LET b == selection.bank
            d == selection.difficulty
            c == selection.capabilities[1]
        IN  /\ selection.result
                  = get_questions_by_difficulty(get_questions_by_capability(b, c), d)
            /\ \A d2 \in Spellings(d), c2 \in Spellings(c) :
                  /\ get_questions_by_capability(get_questions_by_difficulty(b, d2), c2)
                        = selection.result
                  /\ get_questions_by_difficulty(get_questions_by_capability(b, c2), d2)
                        = selection.result
                  /\ ByCapabilities(ByDifficulty(b, d2), <<c2>>) = selection.result
                  /\ ByDifficulty(ByCapabilities(b, <<c2>>), d2) = selection.result

(* C26 witness: both filters reject a question of the bank and one passes   *)
(* both, with difficulty and capability spelled in another case than in the *)
(* bank.                                                                    *)
C26_Witness ==
    /\ selection.op = "filter"
    /\ selection.difficulty = "EASY"
    /\ selection.capabilities = <<"PIVOT">>
    /\ Len(selection.result) = 1
    /\ selection.result[1].difficulty = "easy"
    /\ Len(get_questions_by_difficulty(selection.bank, "EASY")) = 2
    /\ Len(selection.bank) = 3

(* C27: select_many(count, ...) returns min(count, survivors) questions,    *)
(* each a survivor of the filters of select_random, taken from pairwise     *)
(* different places of the bank; when there are no more survivors than      *)
(* count it returns all of them.                                            *)
C27_SelectManyReturnsDistinctSurvivors ==
    selection.op = "select_questions" =>
        LET S == Survivors(selection)
            r == selection.result
            n == Cardinality(S)
        IN  /\ Len(r) = IF selection.count < n THEN selection.count ELSE n
            /\ \A k \in 1..Len(r) : \E i \in S : r[k] = selection.bank[i]
            /\ \A j, k \in 1..Len(r) : j # k => r[j] # r[k]
            /\ n <= selection.count =>
                  {r[k] : k \in 1..Len(r)} = {selection.bank[i] : i \in S}

(* C27 witness: two of three survivors were asked for and returned.         *)
C27_Witness ==
    /\ selection.op = "select_questions"
    /\ selection.count = 2
    /\ Cardinality(Survivors(selection)) = 3
    /\ Len(selection.result) = 2

(* The text of the example of C28.                                          *)
GreatAnswer ==
    <<"Great answer!", " ", "[[", "END", "=", "true", " ", "QID", "=", "7", "]]">>

QidLexeme(raw) ==
    LET r == Strip(raw)
    IN  IF Len(r) >= 2 /\ r[Len(r)] = "]]" THEN r[Len(r) - 1] ELSE ""

(* C29: when the QID token of the marker is "none" or "null" in any letter  *)
(* case, generate_reply reports question_id None in the metadata and the    *)
(* token is not in the used-id set.                                         *)
C29_NoneInAnyCaseIsNoQuestionId ==
    (response.how = "returned" /\ call.raw # None
     /\ Lower(QidLexeme(call.raw[1])) \in {"none", "null"}) =>
        /\ response.metadata.question_id = None
        /\ <<QidLexeme(call.raw[1])>> \notin used

(* C30: a text without a well-formed marker at its very end (no marker, a   *)
(* malformed one, or a marker that other text follows) is returned as it    *)
(* is, with end false and no question id.                                   *)
C30_TextWithoutTrailingMarkerIsUnchanged ==
    (parsed.kind = "unmarked" /\ parsed.result # None) =>
        parsed.result = Some([text |-> parsed.text, end_flag |-> FALSE,
                              question_id |-> None])

(* C30 witness: a text in which other text follows a well-formed marker was *)
(* parsed.                                                                  *)
C30_Witness ==
    /\ parsed.kind = "unmarked"
    /\ parsed.text = <<"Great answer!", " ">> \o MarkerOf("true", <<"7">>, FALSE)
                        \o <<" ", "Thanks.">>
    /\ parsed.result # None

(* The text holds brackets of the marker syntax.                            *)
HasMarkerSyntax(t) == \E i \in 1..Len(t) : t[i] \in {"[[", "]]"}

(* The text parsed is a body without marker syntax followed, directly or    *)
(* after whitespace, by the marker [[END=<end> QID=<id or none>]] of a      *)
(* valid pair: end is true or false, id is an id or none.                   *)
IsEncoded(p) ==
    /\ p.kind = "marked"
    /\ p.result # None
    /\ ~HasMarkerSyntax(p.body)
    /\ p.end_token \in {"true", "false"}
    /\ p.id_token \in {<<"7">>, <<"q", " ", "7">>, <<"none">>}
    /\ \E g \in ParseGaps : p.text = p.body \o g \o MarkerOf(p.end_token, p.id_token, FALSE)

(* The pair (end, id) the marker of p was written from.                     *)
EncodedEnd(p) == p.end_token = "true"
EncodedId(p) == IF p.id_token = <<"none">> THEN None ELSE Some(p.id_token)

(* C31 as stated: decoding a text T without marker syntax followed by the   *)
(* marker of a valid pair (end, id) returns exactly (T, end, id).           *)
C31_MarkerRoundTrip ==
    IsEncoded(parsed) =>
        parsed.result = Some([text |-> parsed.body, end_flag |-> EncodedEnd(parsed),
                              question_id |-> EncodedId(parsed)])

(* C31 amended: decoding a text T without marker syntax followed by the     *)
(* marker of a valid pair (end, id) returns (T without its trailing         *)
(* whitespace, end, id); it returns exactly (T, end, id) when T does not    *)
(* end in whitespace.                                                       *)
C31_MarkerRoundTripUpToTrailingWhitespace ==
    IsEncoded(parsed) =>
        /\ parsed.result = Some([text |-> RStrip(parsed.body),
                                 end_flag |-> EncodedEnd(parsed),
                                 question_id |-> EncodedId(parsed)])
        /\ RStrip(parsed.body) = parsed.body =>
              parsed.result = Some([text |-> parsed.body, end_flag |-> EncodedEnd(parsed),
                                    question_id |-> EncodedId(parsed)])

(* C31 witness: a text of several lines followed by the marker of           *)
(* (false, "q 7") was decoded to that text, false and that id.              *)
C31_Witness ==
    /\ IsEncoded(parsed)
    /\ parsed.body = <<"Hi", "\n", "there">>
    /\ parsed.end_token = "false"
    /\ parsed.result[1].text = parsed.body
    /\ parsed.result[1].question_id = Some(<<"q", " ", "7">>)

(* The text holds a block of the control marker syntax                     *)
(* [[END=... QID=...]], at its end or anywhere before it.                   *)
ContainsMarker(t) ==
    \E n \in 1..Len(t) : \E q \in 1..n : MatchAt(SubSeq(t, 1, n), q).matched

(* C32: the text of a response generate_reply returns holds no control      *)
(* marker, whatever the raw output of the backend was.                      *)
C32_VisibleTextHoldsNoMarker ==
    response.how = "returned" => ~ContainsMarker(response.text)

(* C33: in one session the turn_index values of the messages of the         *)
(* transcript start at 0 and are strictly increasing in append order, hence *)
(* pairwise distinct, also after appends whose write to the file failed.    *)
C33_TurnIndexStrictlyIncreasing ==
    /\ messages # << >> => messages[1].turn_index = 0
    /\ \A i, j \in 1..Len(messages) :
          i < j => messages[i].turn_index < messages[j].turn_index

IsPrefix(a, b) == Len(a) <= Len(b) /\ SubSeq(b, 1, Len(a)) = a

(* C35: the bank is append-only during a run.  Every add, selection and     *)
(* accessor call leaves each record the bank held in its place with its     *)
(* fields unchanged, and the count does not decrease.                       *)
C35_BankIsAppendOnly ==
    [][IsPrefix(questions, questions') /\ Len(questions') >= Len(questions)]_vars

(* C35 witness: on a bank of three records an add with valid arguments was  *)
(* made and then a selection of two questions, and the bank still holds the *)
(* three records.                                                           *)
C35_Witness ==
    /\ bankCall.op = "add_question"
    /\ ValidAddArguments(bankCall)
    /\ Len(bankCall.before) = 3
    /\ selection.op = "select_questions"
    /\ Len(selection.result) = 2
    /\ selection.bank = bankCall.before
    /\ questions = bankCall.before

(* C36: the persisted transcript mirrors the in-memory one.  The "message"  *)
(* lines of the session's file are, in order, the messages of the           *)
(* in-memory log with the same role, content and turn_index.                *)
C36_TranscriptFileMirrorsMemory ==
    transcript = messages

(* C37: every id in the used-id set of the agent is the id of a record of   *)
(* the bank.                                                                *)
C37_UsedIdsAreBankIds ==
    \A id \in used : \E i \in 1..Len(questions) : questions[i].id = id

(* C38: the transcript starts with the bootstrap assistant message and then *)
(* alternates user, assistant: no two consecutive messages have the same    *)
(* role, and between two turns the log ends with an assistant message.      *)
C38_RolesAlternate ==
    /\ messages # << >> =>
          /\ messages[1].role = "assistant"
          /\ messages[1].content = BootstrapText
    /\ \A i \in 1..(Len(messages) - 1) : messages[i].role # messages[i + 1].role
    /\ (pc = "idle" /\ messages # << >>) => messages[Len(messages)].role = "assistant"

(* The same without the requirement on the last message: two consecutive    *)
(* messages never have the same role.                                       *)
C38_NoTwoConsecutiveSameRole ==
    \A i \in 1..(Len(messages) - 1) : messages[i].role # messages[i + 1].role

(* C39: once the messages hold ten assistant messages, the generate_reply   *)
(* call made on them returns end = true whether or not its backend call     *)
(* succeeded.                                                               *)
C39_ReplyAfterTenAssistantMessagesEnds ==
    (/\ pc = "idle"
     /\ response.how \in {"returned", "fallback"}
     /\ AssistantCount(call.messages) >= EndAfterAssistantMessages)
        => response.end

====
